---- MODULE Spec2Model ----
(***************************************************************************)
(* The per-vCPU execution core of the KVM backend                          *)
(* (src/backend/kvm/thread.rs): the Keep's vCPU pool, region table and     *)
(* sallyport (mailbox) array behind one RwLock, the Thread objects that    *)
(* check a vCPU out of the pool, and Thread::enter with its two handled    *)
(* exits: the syscall-trigger proxy pass and the GHCB protocol.            *)
(*                                                                         *)
(* Option<T> is a sequence: <<>> is None, <<x>> is Some(x).                *)
(* A u64 is a tuple of four 16-bit limbs, least significant first, so that *)
(* the masks and shifts of the GHCB code are computed bit for bit.         *)
(***************************************************************************)
EXTENDS Integers, Sequences, FiniteSets, TLC

\* ------------------------------------------------------------------ bounds

\* vCPU handles in the Keep's pool at construction
NumVcpus == 2
\* slots of the sallyports array
NumSallyports == 2
\* items the guest stores in one block
MaxItems == 2
\* kvm_fd.get_nr_memslots(): the device's memory-slot limit
MaxMemslots == 3
\* the period of the entry list a guest writes into a descriptor
MaxPat == 2

\* ------------------------------------------------------- program constants

\* libc::EINVAL
EINVAL == 22
\* libc::ENOTSUP
ENOTSUP == 95
\* sysconf(_SC_PAGE_SIZE) on the host
HostPageSize == 4096
\* usize::BITS: a shift amount is checked (debug) or masked (release) against it
UsizeBits == 64

\* the host threads that spawn a Thread object, call enter() on it and drop it
Threads == {"t1", "t2"}

None == <<>>
Some(x) == <<x>>

VARIABLES
    cpu_fds,      \* Keep.cpu_fds: Vec<VcpuFd>, the idle pool
    sallyports,   \* Keep.sallyports: Vec<Option<block>>
    regions,      \* Keep.regions: Vec of (slot, map)
    poisoned,     \* the RwLock's poison flag
    aborted,      \* the process aborted (a panic while unwinding)
    pc,           \* each Thread's position
    vcpu_fd,      \* Thread.vcpu_fd: Option<VcpuFd>
    exit_reason,  \* the VcpuExit vcpu_fd.run() returned
    block_nr,     \* enter's local block_nr
    block_virt,   \* enter's local block_virt: Option<block>
    item,         \* the item of the block being processed, with its ret field
    nitems,       \* items of the block processed so far
    alloc,        \* bytes Map::bytes mapped in the thread's latest balloon call
    result,       \* what enter() returned last
    ghcb,         \* the 4096-byte GHCB at the page the guest nominates
    attr_calls,   \* set_memory_attributes calls made by the latest handler call
    stored,       \* the items the guest stored in the block of each Thread's vCPU
    section       \* the operations each Thread's latest step did under one guard of the Keep lock

keepVars == <<cpu_fds, sallyports, regions, poisoned, aborted>>
threadVars == <<pc, vcpu_fd, exit_reason, block_nr, block_virt, item, nitems, alloc, result>>
ghcbVars == <<ghcb, attr_calls>>
vars == <<cpu_fds, sallyports, regions, poisoned, aborted, pc, vcpu_fd, exit_reason,
          block_nr, block_virt, item, nitems, alloc, result, ghcb, attr_calls,
          stored,
          section>>

\* ------------------------------------------------------------ 64-bit words

U64(l0, l1, l2, l3) == <<l0, l1, l2, l3>>
Zero64 == U64(0, 0, 0, 0)

RECURSIVE And16(_, _)
\* a & b on two 16-bit limbs, bit by bit
And16(a, b) ==
    IF a = 0 \/ b = 0 THEN 0
    ELSE (a % 2) * (b % 2) + 2 * And16(a \div 2, b \div 2)

\* x & m on u64
And64(x, m) == <<And16(x[1], m[1]), And16(x[2], m[2]), And16(x[3], m[3]), And16(x[4], m[4])>>

\* !0xfff
NotFFF == U64(61440, 65535, 65535, 65535)
\* 0x7_ffff_ffff_f000
GpaMask == U64(61440, 65535, 65535, 7)

\* ---------------------------------------------------------------- records

NoItem == [kind |-> "None", num |-> "", argv |-> <<0, 0, 0, 0>>, ret |-> 0]
NoExit == [kind |-> "None", data |-> <<0, 0>>, msr |-> Zero64]
NoResult == [kind |-> "None", status |-> 0, msg |-> ""]
Continue == [kind |-> "Continue", status |-> 0, msg |-> ""]
\* Err(anyhow!(msg)); ensure! without a message names its condition
Err(msg) == [kind |-> "Err", status |-> 0, msg |-> msg]
Exit(s) == [kind |-> "Exit", status |-> s, msg |-> ""]

\* the block the Keep holds in slot i (0-based) at construction
Block(i) == i + 1

InitRegions == <<[guest_phys_addr |-> 0, memory_size |-> 65536]>>

\* The GHCB page before the guest wrote it: zeroes. entries is the period of
\* the descriptor's entry list: entry k of the list is entries[(k % MaxPat) + 1].
InitGhcb ==
    [ghcb_usage |-> 0, protocol_version |-> 0, sw_exit_code |-> Zero64,
     sw_exit_info2 |-> Zero64, sw_scratch |-> Zero64,
     cur_entry |-> 0, end_entry |-> 0, entries |-> [i \in 1..MaxPat |-> Zero64]]

Init ==
    /\ cpu_fds = [i \in 1..NumVcpus |-> i]
    /\ sallyports = [i \in 1..NumSallyports |-> Some(Block(i - 1))]
    /\ regions = InitRegions
    /\ poisoned = FALSE
    /\ aborted = FALSE
    /\ pc = [t \in Threads |-> "unspawned"]
    /\ vcpu_fd = [t \in Threads |-> None]
    /\ exit_reason = [t \in Threads |-> NoExit]
    /\ block_nr = [t \in Threads |-> 0]
    /\ block_virt = [t \in Threads |-> None]
    /\ item = [t \in Threads |-> NoItem]
    /\ nitems = [t \in Threads |-> 0]
    /\ alloc = [t \in Threads |-> 0]
    /\ result = [t \in Threads |-> NoResult]
    /\ ghcb = InitGhcb
    /\ attr_calls = <<>>
    /\ stored = [t \in Threads |-> <<>>]
    /\ section = [t \in Threads |-> <<>>]

\* ------------------------------------------------------------ Keep::spawn

\* a pop that leaves the handle in the pool
PopRestKeeps(fds) == fds

\* cpu_fds.pop(): the pool without its last handle
PopRest(fds) == SubSeq(fds, 1, Len(fds) - 1)

\* Keep::spawn. write().unwrap() on a poisoned lock panics in the caller and
\* no Thread is made; an empty pool is Ok(None).
Spawn(t) ==
    /\ ~aborted
    /\ pc[t] = "unspawned"
    /\ ~poisoned
    /\ IF cpu_fds = <<>>
       THEN UNCHANGED <<cpu_fds, vcpu_fd, pc>>
       ELSE /\ vcpu_fd' = [vcpu_fd EXCEPT ![t] = Some(cpu_fds[Len(cpu_fds)])]
            /\ cpu_fds' = PopRest(cpu_fds)
            /\ pc' = [pc EXCEPT ![t] = "ready"]
    /\ UNCHANGED <<sallyports, regions, poisoned, aborted, exit_reason, block_nr,
                   block_virt, item, nitems, alloc, result, ghcb, attr_calls>>
    /\ UNCHANGED stored
    /\ section' = [section EXCEPT ![t] = <<"pop">>]

\* ------------------------------------------------------------ Thread::drop

\* cpu_fds.push(vcpu_fd)
PushFd(fds, fd) == Append(fds, fd)

\* Drop for Thread, run by the owner after enter() returned or by unwinding
\* after a panic. vcpu_fd.take() empties the field; write().unwrap() panics
\* on a poisoned lock, the handle is then dropped and never pushed, and a
\* panic while unwinding aborts the process.
Drop(t) ==
    /\ ~aborted
    /\ pc[t] \in {"ready", "panicked"}
    /\ vcpu_fd' = [vcpu_fd EXCEPT ![t] = None]
    /\ IF poisoned
       THEN /\ UNCHANGED cpu_fds
            /\ aborted' = (pc[t] = "panicked")
       ELSE /\ cpu_fds' = PushFd(cpu_fds, vcpu_fd[t][1])
            /\ UNCHANGED aborted
    /\ pc' = [pc EXCEPT ![t] = "unspawned"]
    /\ result' = [result EXCEPT ![t] = NoResult]
    /\ exit_reason' = [exit_reason EXCEPT ![t] = NoExit]
    /\ item' = [item EXCEPT ![t] = NoItem]
    /\ alloc' = [alloc EXCEPT ![t] = 0]
    /\ UNCHANGED <<sallyports, regions, poisoned, block_nr, block_virt, nitems, ghcb,
                   attr_calls>>
    /\ UNCHANGED stored
    /\ section' = [section EXCEPT ![t] = IF poisoned THEN <<>> ELSE <<"push">>]

\* ----------------------------------------------------------- Thread::balloon

\* 1 << log2 on usize: a shift by usize::BITS or more panics where overflow
\* checks are compiled in and shifts by log2 % usize::BITS where they are not.
\* <<>> is the panic.
Shl1(log2, checks) ==
    IF log2 < UsizeBits THEN Some(2 ^ log2)
    ELSE IF checks THEN None
    ELSE Some(2 ^ (log2 % UsizeBits))

\* Keep::map: registers the mapping as a new region, or fails when the device
\* rejects it (no free memory slot, or any other device error: ~ok).
KeepMap(regs, bytes, addr, ok) ==
    IF ok /\ Len(regs) < MaxMemslots
    THEN [ok |-> TRUE,
          regions |-> Append(regs, [guest_phys_addr |-> addr, memory_size |-> bytes]),
          userspace_addr |-> 1048576 * (Len(regs) + 1)]
    ELSE [ok |-> FALSE, regions |-> regs, userspace_addr |-> 0]

\* Thread::balloon. env.a: Map::bytes succeeds; env.b: the device accepts the
\* mapping; env.checks: overflow checks are compiled in; psn: the lock is
\* poisoned. out is "ok" (val the host address), "err" (val the errno) or
\* "panic"; alloc the bytes Map::bytes mapped.
Balloon(log2, npgs, addr, is_private, env, regs, psn) ==
    LET size == Shl1(log2, env.checks)
        pgsz == HostPageSize
    IN  IF size = None
        THEN [out |-> "panic", val |-> 0, regions |-> regs, alloc |-> 0]
        ELSE IF size[1] # pgsz \/ addr % size[1] # 0
        THEN [out |-> "err", val |-> EINVAL, regions |-> regs, alloc |-> 0]
        ELSE IF ~env.a
        THEN [out |-> "err", val |-> ENOTSUP, regions |-> regs, alloc |-> 0]
        ELSE IF psn
        THEN [out |-> "panic", val |-> 0, regions |-> regs, alloc |-> size[1] * npgs]
        ELSE LET m == KeepMap(regs, size[1] * npgs, addr, env.b)
             IN  IF m.ok
                 THEN [out |-> "ok", val |-> m.userspace_addr, regions |-> m.regions,
                       alloc |-> size[1] * npgs]
                 ELSE [out |-> "err", val |-> ENOTSUP, regions |-> regs,
                       alloc |-> size[1] * npgs]

\* meminfo that leaves the regions in use out of the count
MemInfoTotal(regs, psn) ==
    IF psn THEN None ELSE Some(MaxMemslots)

\* Thread::meminfo: <<>> is the panic of read().unwrap() on a poisoned lock
MemInfo(regs, psn) ==
    IF psn THEN None ELSE Some(MaxMemslots - Len(regs))

\* ------------------------------------------------------ Thread::kvm_enarxcall

\* Thread::kvm_enarxcall. out is "handled" (ret written, Ok(None)), "forward"
\* (Ok(Some(item)): not handled here) or "panic". ret is the usize result read
\* as a signed word: -e as usize is -e.
KvmEnarxcall(it, env, regs, psn) ==
    IF it.num = "MemInfo"
    THEN LET m == MemInfo(regs, psn)
         IN  IF m = None
             THEN [out |-> "panic", ret |-> it.ret, regions |-> regs, alloc |-> 0]
             ELSE [out |-> "handled", ret |-> m[1], regions |-> regs, alloc |-> 0]
    ELSE IF it.num = "BalloonMemory"
    THEN LET b == Balloon(it.argv[1], it.argv[2], it.argv[3], it.argv[4] # 0, env, regs, psn)
         IN  IF b.out = "panic"
             THEN [out |-> "panic", ret |-> it.ret, regions |-> regs, alloc |-> b.alloc]
             ELSE [out |-> "handled",
                   ret |-> IF b.out = "ok" THEN b.val ELSE 0 - b.val,
                   regions |-> b.regions, alloc |-> b.alloc]
    ELSE [out |-> "forward", ret |-> it.ret, regions |-> regs, alloc |-> 0]

\* ------------------------------------------------------------ Thread::enter

\* block_nr = data[0] + (data[1] << 8)
BlockNr(data) == data[1] + data[2] * 256

\* the guard of the exit arm without its second alternative
IsExitOnly(it) ==
    it.kind = "Syscall" /\ it.num = "SYS_exit"

IsExitSyscall(it) ==
    it.kind = "Syscall" /\ (it.num = "SYS_exit" \/ it.num = "SYS_exit_group")

\* the status read from argv[1]
ExitStatusArg1(it) == it.argv[2]

\* syscall.argv[0] as _: the status handed to Command::Exit
ExitStatus(it) == it.argv[1]

\* One turn of `for item in block`. out: "next" (go on with the next item),
\* "err" (a `?` returns the error), "exit" (return Command::Exit), "panic".
\* env.a, env.b: the outcomes of the calls out of this file (execute_gdb;
\* personality.enarxcall and sallyport::host::execute; for balloon see there).
ItemStep(it, env, regs, psn) ==
    LET same == [out |-> "next", ret |-> it.ret, regions |-> regs, alloc |-> 0, status |-> 0]
    IN  IF it.kind = "Gdbcall"
        THEN \* feature "gdb" (env.a) runs execute_gdb, which may fail (env.b)
             IF env.a /\ ~env.b THEN [same EXCEPT !.out = "err"] ELSE same
        ELSE IF it.kind = "Enarxcall"
        THEN LET k == KvmEnarxcall(it, env, regs, psn)
             IN  IF k.out = "panic"
                 THEN [same EXCEPT !.out = "panic", !.alloc = k.alloc]
                 ELSE IF k.out = "handled"
                 THEN [same EXCEPT !.ret = k.ret, !.regions = k.regions, !.alloc = k.alloc]
                 ELSE IF psn
                 THEN [same EXCEPT !.out = "panic"]
                 ELSE IF ~env.a \/ ~env.b
                 THEN [same EXCEPT !.out = "err"]
                 ELSE same
        ELSE IF IsExitSyscall(it)
        THEN [same EXCEPT !.out = "exit", !.status = ExitStatus(it)]
        ELSE \* Item::Syscall: sallyport::host::execute(iter::once(item))
             IF ~env.a THEN [same EXCEPT !.out = "err"] ELSE same

\* What one turn of `for item in block` does under one guard of the Keep lock:
\* meminfo reads regions.len() under a read guard, balloon calls keep.map
\* under a write guard once Map::bytes succeeded, and a host-call that is not
\* handled here has personality.enarxcall and, when that succeeds,
\* sallyport::host::execute of the items it returns run under the write guard
\* `keep`. A poisoned lock gives no guard.
ItemSection(it, env, psn) ==
    IF psn \/ it.kind # "Enarxcall" THEN <<>>
    ELSE IF it.num = "MemInfo" THEN <<"len">>
    ELSE IF it.num = "BalloonMemory"
    THEN LET size == Shl1(it.argv[1], env.checks)
         IN  IF size = None THEN <<>>
             ELSE IF size[1] # HostPageSize \/ it.argv[3] % size[1] # 0 THEN <<>>
             ELSE IF ~env.a THEN <<>>
             ELSE <<"map">>
    ELSE IF ~env.a THEN <<"personality">>
    ELSE <<"personality", "execute">>

\* enter() is left: with Ok(command) or Err to the caller ("ready"), or by a
\* panic ("panicked"), whose message names the exit it came from. The locals
\* are gone; the item stays in the block.
Leave(t, to, r) ==
    /\ pc' = [pc EXCEPT ![t] = to]
    /\ result' = [result EXCEPT ![t] = r]
    /\ exit_reason' = [exit_reason EXCEPT ![t] = IF to = "panicked" THEN @ ELSE NoExit]
    /\ block_nr' = [block_nr EXCEPT ![t] = 0]
    /\ block_virt' = [block_virt EXCEPT ![t] = None]
    /\ nitems' = [nitems EXCEPT ![t] = 0]

\* enter() is called and vcpu_fd.run() starts: the guest runs
Run(t) ==
    /\ ~aborted
    /\ pc[t] = "ready"
    /\ pc' = [pc EXCEPT ![t] = "running"]
    /\ result' = [result EXCEPT ![t] = NoResult]
    /\ item' = [item EXCEPT ![t] = NoItem]
    /\ alloc' = [alloc EXCEPT ![t] = 0]
    /\ attr_calls' = <<>>
    /\ UNCHANGED <<keepVars, vcpu_fd, exit_reason, block_nr, block_virt, nitems, ghcb>>
    /\ UNCHANGED stored
    /\ section' = [section EXCEPT ![t] = <<>>]

\* vcpu_fd.run()? returns: the vCPU left the guest with reason e, or the run
\* failed (e.kind = "Fail") and `?` returns the error
VcpuExit(t, e) ==
    /\ ~aborted
    /\ pc[t] = "running"
    /\ exit_reason' = [exit_reason EXCEPT ![t] = IF e.kind = "Fail" THEN NoExit ELSE e]
    /\ pc' = [pc EXCEPT ![t] = IF e.kind = "Fail" THEN "ready" ELSE "dispatch"]
    /\ result' = [result EXCEPT ![t] = IF e.kind = "Fail" THEN Err("run") ELSE NoResult]
    /\ UNCHANGED <<keepVars, vcpu_fd, block_nr, block_virt, item, nitems, alloc, ghcb,
                   attr_calls>>
    /\ UNCHANGED stored
    /\ UNCHANGED section

\* a take that reads the slot and leaves the block in it
TakeSlotKeeps(ports, nr) ==
    [got |-> ports[nr + 1], ports |-> ports]

\* sallyports[block_nr].take(): the slot's content and the array with the slot
\* emptied
TakeSlot(ports, nr) ==
    [got |-> ports[nr + 1], ports |-> [ports EXCEPT ![nr + 1] = None]]

\* VcpuExit::IoOut(KVM_SYSCALL_TRIGGER_PORT, data): block_nr and
\* keep.write().unwrap().sallyports[block_nr].take().unwrap(). An index past
\* the array and an empty slot panic while the write guard is alive, which
\* poisons the lock.
Take(t) ==
    /\ ~aborted
    /\ pc[t] = "dispatch"
    /\ exit_reason[t].kind = "IoOut"
    /\ LET nr == BlockNr(exit_reason[t].data)
           inRange == nr < Len(sallyports)
           tk == TakeSlot(sallyports, nr)
           fine == ~poisoned /\ inRange /\ tk.got # None
       IN  IF fine
           THEN /\ sallyports' = tk.ports
                /\ block_nr' = [block_nr EXCEPT ![t] = nr]
                /\ block_virt' = [block_virt EXCEPT ![t] = tk.got]
                /\ pc' = [pc EXCEPT ![t] = "taken"]
                /\ UNCHANGED <<poisoned, result, exit_reason, nitems>>
           ELSE /\ Leave(t, "panicked", NoResult)
                /\ poisoned' = TRUE
                /\ UNCHANGED sallyports
    /\ UNCHANGED <<cpu_fds, regions, aborted, vcpu_fd, item, alloc, ghcb, attr_calls>>
    /\ UNCHANGED stored
    /\ section' = [section EXCEPT ![t] = IF poisoned THEN <<>> ELSE <<"take">>]

\* Block::from(slice of sallyport_block_size / size_of::<usize>() words): the
\* size is read under keep.read().unwrap()
ReadBlockSize(t) ==
    /\ ~aborted
    /\ pc[t] = "taken"
    /\ IF poisoned
       THEN Leave(t, "panicked", NoResult)
       ELSE /\ pc' = [pc EXCEPT ![t] = "loop"]
            /\ UNCHANGED <<result, exit_reason, block_nr, block_virt, nitems>>
    /\ UNCHANGED <<keepVars, vcpu_fd, item, alloc, ghcb, attr_calls>>
    /\ UNCHANGED stored
    /\ section' = [section EXCEPT ![t] = <<>>]

\* the body of `for item in block` for the next item `it` of the block
NextItem(t, it, env) ==
    /\ ~aborted
    /\ pc[t] = "loop"
    /\ nitems[t] < MaxItems
    /\ LET s == ItemStep(it, env, regions, poisoned)
       IN  /\ item' = [item EXCEPT ![t] = [it EXCEPT !.ret = s.ret]]
           /\ regions' = s.regions
           /\ alloc' = [alloc EXCEPT ![t] = s.alloc]
           /\ IF s.out = "next"
              THEN /\ nitems' = [nitems EXCEPT ![t] = @ + 1]
                   /\ UNCHANGED <<pc, result, exit_reason, block_nr, block_virt>>
              ELSE IF s.out = "panic" THEN Leave(t, "panicked", NoResult)
              ELSE IF s.out = "exit" THEN Leave(t, "ready", Exit(s.status))
              ELSE Leave(t, "ready", Err("item"))
    /\ UNCHANGED <<cpu_fds, sallyports, poisoned, aborted, vcpu_fd, ghcb, attr_calls>>
    /\ UNCHANGED stored
    /\ section' = [section EXCEPT ![t] = ItemSection(it, env, poisoned)]

\* a replace that puts the block into the first slot
ReplaceSlotFirst(ports, nr, blk) == [ports EXCEPT ![1] = blk]

\* sallyports[block_nr].replace(block_virt): the array with the block put back
ReplaceSlot(ports, nr, blk) == [ports EXCEPT ![nr + 1] = blk]

\* the block has no more items: keep.write().unwrap().sallyports[block_nr]
\* .replace(block_virt) and Ok(Command::Continue)
Replace(t) ==
    /\ ~aborted
    /\ pc[t] = "loop"
    /\ IF poisoned
       THEN /\ Leave(t, "panicked", NoResult)
            /\ UNCHANGED sallyports
       ELSE /\ sallyports' = ReplaceSlot(sallyports, block_nr[t], block_virt[t])
            /\ Leave(t, "ready", Continue)
    /\ UNCHANGED <<cpu_fds, regions, poisoned, aborted, vcpu_fd, item, alloc, ghcb, attr_calls>>
    /\ UNCHANGED stored
    /\ section' = [section EXCEPT ![t] = IF poisoned THEN <<>> ELSE <<"replace">>]

\* any other VcpuExit: bail!("KVM error: ...")
Unhandled(t) ==
    /\ ~aborted
    /\ pc[t] = "dispatch"
    /\ exit_reason[t].kind = "Other"
    /\ Leave(t, "ready", Err("KVM error"))
    /\ UNCHANGED <<keepVars, vcpu_fd, item, alloc, ghcb, attr_calls>>
    /\ UNCHANGED stored
    /\ section' = [section EXCEPT ![t] = <<>>]

\* ------------------------------------------------- Thread::handle_ghcb_request

\* entries the 2032-byte shared buffer holds after the 8-byte header of
\* SnpPscDesc (cur_entry: u16, end_entry: u16, reserved: u32)
PscEntries == (2032 - 8) \div 8

\* 0x8000_0010: SNP Page State Change
SwExitPsc == U64(16, 32768, 0, 0)
\* 0x0000_0100_0000_0000
ErrUnspecified == U64(0, 0, 256, 0)
\* 0x0000_0001_0000_0002
ErrInvalidEntry == U64(2, 0, 1, 0)

\* set_memory_attributes(&mut vm_fd, gpa, 0x1000, private): the device rejects
\* the fail_at-th call of a handler call (0: none); the call is logged
SetMemoryAttributes(calls, gpa, private, fail_at) ==
    LET ok == (Len(calls) + 1 # fail_at)
    IN  [ok |-> ok,
         calls |-> Append(calls, [gpa |-> gpa, len |-> 4096, private |-> private, ok |-> ok])]

\* the read of the entry one past the cursor
PscEntryNext(g, k) == g.entries[((k + 1) % MaxPat) + 1]

\* psc_desc.entries[k]
PscEntry(g, k) == g.entries[(k % MaxPat) + 1]

\* (entry.entry >> 52) & 0xf
Operation(x) == And16(x[4] \div 16, 15)
\* (entry.entry >> 56) & 1
PageSize(x) == And16(x[4] \div 256, 1)
\* entry.entry & 0xfff
CurPage(x) == And16(x[1], 4095)

RECURSIVE PscLoopAdvances(_, _, _)
\* PscLoop with `psc_desc.cur_entry += 1` moved in front of the match on res
PscLoopAdvances(g, calls, fail_at) ==
    IF ~(g.cur_entry <= g.end_entry)
    THEN [out |-> "ok", msg |-> "", ghcb |-> g, calls |-> calls]
    ELSE IF g.cur_entry >= PscEntries
    THEN [out |-> "panic", msg |-> "", ghcb |-> g, calls |-> calls]
    ELSE LET entry == PscEntry(g, g.cur_entry)
             operation == Operation(entry)
             set == SetMemoryAttributes(calls, And64(entry, GpaMask), operation = 1, fail_at)
             res == IF operation \in {1, 2}
                    THEN IF set.ok THEN None ELSE Some(ErrUnspecified)
                    ELSE IF operation \in {3, 4} THEN None
                    ELSE Some(ErrInvalidEntry)
             calls2 == IF operation \in {1, 2} THEN set.calls ELSE calls
             g2 == [g EXCEPT !.cur_entry = (@ + 1) % 65536]
         IN  IF PageSize(entry) # 0
             THEN [out |-> "err", msg |-> "request page state change for 2MiB page",
                   ghcb |-> g, calls |-> calls]
             ELSE IF CurPage(entry) # 0
             THEN [out |-> "err", msg |-> "cur_page == 0", ghcb |-> g, calls |-> calls]
             ELSE IF res = None
             THEN PscLoopAdvances(g2, calls2, fail_at)
             ELSE [out |-> "ok", msg |-> "", ghcb |-> [g2 EXCEPT !.sw_exit_info2 = res[1]],
                   calls |-> calls2]

RECURSIVE PscLoopHintsAssign(_, _, _)
\* PscLoop with the two hint arms doing what the shared-assignment arm does
PscLoopHintsAssign(g, calls, fail_at) ==
    IF ~(g.cur_entry <= g.end_entry)
    THEN [out |-> "ok", msg |-> "", ghcb |-> g, calls |-> calls]
    ELSE IF g.cur_entry >= PscEntries
    THEN [out |-> "panic", msg |-> "", ghcb |-> g, calls |-> calls]
    ELSE LET entry == PscEntry(g, g.cur_entry)
             operation == Operation(entry)
             set == SetMemoryAttributes(calls, And64(entry, GpaMask), operation = 1, fail_at)
             res == IF operation \in {1, 2, 3, 4}
                    THEN IF set.ok THEN None ELSE Some(ErrUnspecified)
                    ELSE Some(ErrInvalidEntry)
             calls2 == IF operation \in {1, 2, 3, 4} THEN set.calls ELSE calls
         IN  IF PageSize(entry) # 0
             THEN [out |-> "err", msg |-> "request page state change for 2MiB page",
                   ghcb |-> g, calls |-> calls]
             ELSE IF CurPage(entry) # 0
             THEN [out |-> "err", msg |-> "cur_page == 0", ghcb |-> g, calls |-> calls]
             ELSE IF res = None
             THEN PscLoopHintsAssign([g EXCEPT !.cur_entry = (@ + 1) % 65536], calls2, fail_at)
             ELSE [out |-> "ok", msg |-> "", ghcb |-> [g EXCEPT !.sw_exit_info2 = res[1]],
                   calls |-> calls2]

RECURSIVE PscLoopClears(_, _, _)
\* PscLoop that clears sw_exit_info2 when the loop ends without a failure
PscLoopClears(g, calls, fail_at) ==
    IF ~(g.cur_entry <= g.end_entry)
    THEN [out |-> "ok", msg |-> "", ghcb |-> [g EXCEPT !.sw_exit_info2 = Zero64],
          calls |-> calls]
    ELSE IF g.cur_entry >= PscEntries
    THEN [out |-> "panic", msg |-> "", ghcb |-> g, calls |-> calls]
    ELSE LET entry == PscEntry(g, g.cur_entry)
             operation == Operation(entry)
             set == SetMemoryAttributes(calls, And64(entry, GpaMask), operation = 1, fail_at)
             res == IF operation \in {1, 2}
                    THEN IF set.ok THEN None ELSE Some(ErrUnspecified)
                    ELSE IF operation \in {3, 4} THEN None
                    ELSE Some(ErrInvalidEntry)
             calls2 == IF operation \in {1, 2} THEN set.calls ELSE calls
         IN  IF PageSize(entry) # 0
             THEN [out |-> "err", msg |-> "request page state change for 2MiB page",
                   ghcb |-> g, calls |-> calls]
             ELSE IF CurPage(entry) # 0
             THEN [out |-> "err", msg |-> "cur_page == 0", ghcb |-> g, calls |-> calls]
             ELSE IF res = None
             THEN PscLoopClears([g EXCEPT !.cur_entry = (@ + 1) % 65536], calls2, fail_at)
             ELSE [out |-> "ok", msg |-> "", ghcb |-> [g EXCEPT !.sw_exit_info2 = res[1]],
                   calls |-> calls2]

RECURSIVE PscLoop(_, _, _)
\* `while psc_desc.cur_entry <= psc_desc.end_entry`, from the state (g, calls).
\* out: "ok" (the loop ended or broke), "err" (an ensure! failed), "panic"
\* (the index is past the entry list).
PscLoop(g, calls, fail_at) ==
    IF ~(g.cur_entry <= g.end_entry)
    THEN [out |-> "ok", msg |-> "", ghcb |-> g, calls |-> calls]
    ELSE IF g.cur_entry >= PscEntries
    THEN [out |-> "panic", msg |-> "", ghcb |-> g, calls |-> calls]
    ELSE LET entry == PscEntry(g, g.cur_entry)
             gpa == And64(entry, GpaMask)
             operation == Operation(entry)
             set == SetMemoryAttributes(calls, gpa, operation = 1, fail_at)
             res == IF operation \in {1, 2}
                    THEN IF set.ok THEN None ELSE Some(ErrUnspecified)
                    ELSE IF operation \in {3, 4} THEN None
                    ELSE Some(ErrInvalidEntry)
             calls2 == IF operation \in {1, 2} THEN set.calls ELSE calls
         IN  IF PageSize(entry) # 0
             THEN [out |-> "err", msg |-> "request page state change for 2MiB page",
                   ghcb |-> g, calls |-> calls]
             ELSE IF CurPage(entry) # 0
             THEN [out |-> "err", msg |-> "cur_page == 0", ghcb |-> g, calls |-> calls]
             ELSE IF res = None
             THEN PscLoop([g EXCEPT !.cur_entry = (@ + 1) % 65536], calls2, fail_at)
             ELSE [out |-> "ok", msg |-> "", ghcb |-> [g EXCEPT !.sw_exit_info2 = res[1]],
                   calls |-> calls2]

\* the regions whose range holds guest address gfn (a u64)
RegionsOf(regs, gfn) ==
    IF gfn[3] # 0 \/ gfn[4] # 0 \/ gfn[2] >= 16384
    THEN {}
    ELSE LET a == gfn[1] + 65536 * gfn[2]
         IN  {i \in 1..Len(regs) :
                 /\ regs[i].guest_phys_addr <= a
                 /\ a < regs[i].guest_phys_addr + regs[i].memory_size}

\* gfn + 2048, gfn a multiple of 4096
Plus2048(gfn) == [gfn EXCEPT ![1] = @ + 2048]

\* handle_ghcb_request without the two ensure! lines that validate the framing
HandleGhcbRequestUnvalidated(ghcb_msr, g, regs, psn, fail_at) ==
    LET gfn == And64(ghcb_msr, NotFFF)
        found == RegionsOf(regs, gfn)
        same == [out |-> "err", msg |-> "", ghcb |-> g, calls |-> <<>>, poison |-> FALSE]
    IN  IF psn THEN [same EXCEPT !.out = "panic"]
        ELSE IF found = {} THEN [same EXCEPT !.msg = "can't find GHCB"]
        ELSE IF g.sw_exit_code = SwExitPsc
        THEN IF g.sw_scratch # Plus2048(gfn)
             THEN [same EXCEPT !.msg = "the page state change struct is not in the shared buffer"]
             ELSE LET l == PscLoop(g, <<>>, fail_at)
                  IN  [out |-> l.out, msg |-> l.msg, ghcb |-> l.ghcb,
                       calls |-> l.calls, poison |-> (l.out = "panic")]
        ELSE [same EXCEPT !.msg = "unimplemented sw_exit_code"]

\* Thread::handle_ghcb_request, all of it under the write guard: a panic in
\* it poisons the lock. g is the page at gfn.
HandleGhcbRequest(ghcb_msr, g, regs, psn, fail_at) ==
    LET gfn == And64(ghcb_msr, NotFFF)
        found == RegionsOf(regs, gfn)
        same == [out |-> "err", msg |-> "", ghcb |-> g, calls |-> <<>>, poison |-> FALSE]
    IN  IF psn THEN [same EXCEPT !.out = "panic"]
        ELSE IF found = {} THEN [same EXCEPT !.msg = "can't find GHCB"]
        ELSE LET i == CHOOSE i \in found : \A j \in found : i <= j
                 offset == gfn[1] + 65536 * gfn[2] - regs[i].guest_phys_addr
             IN  IF regs[i].memory_size - offset < 4096
                 THEN [same EXCEPT !.out = "panic", !.poison = TRUE]
                 ELSE IF g.ghcb_usage # 0
                 THEN [same EXCEPT !.msg = "ghcb.ghcb_usage == 0"]
                 ELSE IF ~(g.protocol_version <= 2)
                 THEN [same EXCEPT !.msg = "ghcb.protocol_version <= 2"]
                 ELSE IF g.sw_exit_code = SwExitPsc
                 THEN IF g.sw_scratch # Plus2048(gfn)
                      THEN [same EXCEPT !.msg = "the page state change struct is not in the shared buffer"]
                      ELSE LET l == PscLoop(g, <<>>, fail_at)
                           IN  [out |-> l.out, msg |-> l.msg, ghcb |-> l.ghcb,
                                calls |-> l.calls, poison |-> (l.out = "panic")]
                 ELSE [same EXCEPT !.msg = "unimplemented sw_exit_code"]

\* ---------------------------------------- Thread::handle_msr_page_state_request

\* handle_msr_page_state_request with the `true` and `false` of its two arms
\* exchanged
HandleMsrPageStateRequestSwapped(ghcb_msr, psn, fail_at) ==
    LET gpa == And64(ghcb_msr, GpaMask)
        page_operation == Operation(ghcb_msr)
        set == SetMemoryAttributes(<<>>, gpa, page_operation = 2, fail_at)
    IN  IF page_operation \in {1, 2}
        THEN IF psn THEN [out |-> "panic", msg |-> "", calls |-> <<>>]
             ELSE IF set.ok THEN [out |-> "ok", msg |-> "", calls |-> set.calls]
             ELSE [out |-> "err", msg |-> "failed to change page state", calls |-> set.calls]
        ELSE [out |-> "err", msg |-> "unimplemented operation", calls |-> <<>>]

\* Thread::handle_msr_page_state_request
HandleMsrPageStateRequest(ghcb_msr, psn, fail_at) ==
    LET gpa == And64(ghcb_msr, GpaMask)
        page_operation == Operation(ghcb_msr)
        set == SetMemoryAttributes(<<>>, gpa, page_operation = 1, fail_at)
    IN  IF page_operation \in {1, 2}
        THEN IF psn THEN [out |-> "panic", msg |-> "", calls |-> <<>>]
             ELSE IF set.ok THEN [out |-> "ok", msg |-> "", calls |-> set.calls]
             ELSE [out |-> "err", msg |-> "failed to change page state", calls |-> set.calls]
        ELSE [out |-> "err", msg |-> "unimplemented operation", calls |-> <<>>]

\* ---------------------------------------------------- Thread::handle_vmgexit

\* Thread::handle_vmgexit
HandleVmgexit(ghcb_msr, g, regs, psn, fail_at) ==
    LET f == And16(ghcb_msr[1], 4095)
    IN  IF f = 0 THEN HandleGhcbRequest(ghcb_msr, g, regs, psn, fail_at)
        ELSE IF f = 20
        THEN LET m == HandleMsrPageStateRequest(ghcb_msr, psn, fail_at)
             IN  [out |-> m.out, msg |-> m.msg, ghcb |-> g, calls |-> m.calls,
                  poison |-> FALSE]
        ELSE [out |-> "err", msg |-> "unimplemented GHCB protocol function", ghcb |-> g,
              calls |-> <<>>, poison |-> FALSE]

\* What handle_vmgexit does under one guard of the Keep lock. The guard of
\* handle_ghcb_request (`guard`, taken before the region lookup) lives until
\* the function returns: the lookup and every turn of the loop that reached
\* its entry are under it (turns after the second are not recorded). The
\* guard of handle_msr_page_state_request is a temporary of the one call.
VmgexitSection(ghcb_msr, g, regs, psn, fail_at) ==
    LET f == And16(ghcb_msr[1], 4095)
        h == HandleGhcbRequest(ghcb_msr, g, regs, psn, fail_at)
        turns == h.ghcb.cur_entry - g.cur_entry
                 + (IF h.out = "err" \/ (h.out = "ok" /\ h.ghcb.cur_entry <= h.ghcb.end_entry)
                    THEN 1 ELSE 0)
        looped == /\ RegionsOf(regs, And64(ghcb_msr, NotFFF)) # {}
                  /\ g.ghcb_usage = 0 /\ g.protocol_version <= 2
                  /\ g.sw_exit_code = SwExitPsc
                  /\ g.sw_scratch = Plus2048(And64(ghcb_msr, NotFFF))
    IN  IF psn THEN <<>>
        ELSE IF f = 0
        THEN IF ~looped \/ turns = 0 THEN <<"find">>
             ELSE IF turns = 1 THEN <<"find", "entry">>
             ELSE <<"find", "entry", "entry">>
        ELSE IF f = 20 /\ Operation(ghcb_msr) \in {1, 2} THEN <<"attr">>
        ELSE <<>>

\* VcpuExit::Vmgexit(ghcb_msr, error): handle_vmgexit(ghcb_msr, error)? and
\* Ok(Command::Continue)
Vmgexit(t, fail_at) ==
    /\ ~aborted
    /\ pc[t] = "dispatch"
    /\ exit_reason[t].kind = "Vmgexit"
    /\ LET h == HandleVmgexit(exit_reason[t].msr, ghcb, regions, poisoned, fail_at)
       IN  /\ ghcb' = h.ghcb
           /\ attr_calls' = h.calls
           /\ poisoned' = (poisoned \/ h.poison)
           /\ IF h.out = "panic" THEN Leave(t, "panicked", NoResult)
              ELSE IF h.out = "err" THEN Leave(t, "ready", Err(h.msg))
              ELSE Leave(t, "ready", Continue)
    /\ UNCHANGED <<cpu_fds, sallyports, regions, aborted, vcpu_fd, item, alloc>>
    /\ UNCHANGED stored
    /\ section' = [section EXCEPT ![t] = VmgexitSection(exit_reason[t].msr, ghcb, regions, poisoned, fail_at)]

\* while a vCPU runs, the guest writes the GHCB page: g is ghcb with some
\* fields written
GuestWrite(g) ==
    /\ ~aborted
    /\ \E t \in Threads : pc[t] = "running"
    /\ ghcb' = g
    /\ UNCHANGED <<keepVars, threadVars, attr_calls>>
    /\ UNCHANGED stored
    /\ UNCHANGED section

\* while a Thread's vCPU runs, its guest stores the items b in the block it
\* will trigger a pass for
GuestStore(t, b) ==
    /\ ~aborted
    /\ pc[t] = "running"
    /\ stored' = [stored EXCEPT ![t] = b]
    /\ UNCHANGED <<keepVars, threadVars, ghcbVars>>
    /\ UNCHANGED section

\* `for item in block`: the item the iteration yields after n items, none
\* when the block holds no more
NextOf(b, n) == IF n < Len(b) THEN Some(b[n + 1]) ELSE None

\* ------------------------------------------------------------------ inputs

\* the outcomes of the calls that leave this file, and the build's overflow checks
Envs == [a : BOOLEAN, b : BOOLEAN, checks : BOOLEAN]

\* the part of Envs that item `it` can tell apart
EnvsOf(it) ==
    {env \in Envs :
        /\ (it.num # "BalloonMemory" \/ it.argv[1] < UsizeBits => ~env.checks)
        /\ (it.kind = "Syscall" \/ it.num = "MemInfo" => env.b)
        /\ (IsExitSyscall(it) \/ it.num = "MemInfo" => env.a)}

MkItem(kind, num, argv) == [kind |-> kind, num |-> num, argv |-> argv, ret |-> 0]

\* the exits of a vCPU whose guest triggers syscall proxying: the two data
\* bytes name a slot of the array or the first index past it
IoOutExits ==
    {[kind |-> "IoOut", data |-> <<i, 0>>, msr |-> Zero64] : i \in 0..NumSallyports}

OtherExits ==
    {[kind |-> "Other", data |-> <<0, 0>>, msr |-> Zero64],
     [kind |-> "Fail", data |-> <<0, 0>>, msr |-> Zero64]}

\* the items a guest stores in a block while several vCPUs run
ProxyItems ==
    {MkItem("Gdbcall", "", <<0, 0, 0, 0>>),
     MkItem("Enarxcall", "MemInfo", <<0, 0, 0, 0>>),
     MkItem("Enarxcall", "Cpuid", <<0, 0, 0, 0>>),
     MkItem("Syscall", "SYS_write", <<1, 0, 0, 0>>),
     MkItem("Syscall", "SYS_exit", <<7, 0, 0, 0>>),
     MkItem("Syscall", "SYS_exit_group", <<0, 3, 0, 0>>)}

\* the items of a guest that stores whole blocks: a syscall that can fail, a
\* host-call handled here, and exit_group
StoredItems ==
    {MkItem("Syscall", "SYS_write", <<1, 0, 0, 0>>),
     MkItem("Enarxcall", "MemInfo", <<0, 0, 0, 0>>),
     MkItem("Syscall", "SYS_exit_group", <<3, 0, 0, 0>>)}

\* the blocks of up to MaxItems such items
StoredBlocks ==
    UNION {[1..n -> StoredItems] : n \in 0..MaxItems}

\* the balloon calls of a guest, with page sizes below, at and above the
\* host's, a shift amount past the word, and addresses aligned and not
BalloonItems ==
    {MkItem("Enarxcall", "BalloonMemory", <<log2, 1, addr, priv>>) :
        log2 \in {11, 12, 13, 76}, addr \in {131072, 133120, 135168}, priv \in {0, 1}}
    \cup {MkItem("Enarxcall", "MemInfo", <<0, 0, 0, 0>>)}

\* descriptor entries: (gpa, operation, page-size flag, page-offset bits)
PscEntryValues ==
    {U64(20480, 0, 0, 16),       \* 0x0010_0000_0000_5000: private, 0x5000
     U64(24576, 0, 0, 40),       \* 0x0028_0000_0000_6000: shared, bit 51 set
     U64(28672, 0, 0, 48),       \* operation 3, PSMASH
     U64(28672, 0, 0, 64),       \* operation 4, UNSMASH
     U64(32768, 0, 0, 80),       \* operation 5
     U64(32768, 0, 0, 336),      \* operation 5, 2MiB
     U64(0, 0, 0, 0)}            \* operation 0

\* (cur_entry, end_entry) the guest writes: short ranges, an empty range, and
\* ranges that reach the end of the entry list and past it
PscRanges ==
    {<<c, e>> : c \in 0..1, e \in {0, MaxPat}}
    \cup {<<PscEntries - 1, PscEntries>>, <<PscEntries, 65535>>}

\* the page the guest nominates: 0x3000
GhcbGfn == U64(12288, 0, 0, 0)

\* the framing of a GHCB: as the protocol asks, and with one field off
GhcbFrames ==
    {[ghcb_usage |-> 0, protocol_version |-> 2, sw_exit_code |-> SwExitPsc,
      sw_scratch |-> Plus2048(GhcbGfn)],
     [ghcb_usage |-> 1, protocol_version |-> 2, sw_exit_code |-> SwExitPsc,
      sw_scratch |-> Plus2048(GhcbGfn)],
     [ghcb_usage |-> 0, protocol_version |-> 3, sw_exit_code |-> SwExitPsc,
      sw_scratch |-> Plus2048(GhcbGfn)],
     [ghcb_usage |-> 0, protocol_version |-> 2, sw_exit_code |-> SwExitPsc,
      sw_scratch |-> Zero64]}

\* what one write of the guest makes of the GHCB g: the framing, the range of
\* the descriptor, one entry of its list, or sw_exit_info2 cleared
GuestGhcbs(g) ==
    {[g EXCEPT !.ghcb_usage = f.ghcb_usage, !.protocol_version = f.protocol_version,
               !.sw_exit_code = f.sw_exit_code, !.sw_scratch = f.sw_scratch] :
        f \in GhcbFrames}
    \cup {[g EXCEPT !.cur_entry = r[1], !.end_entry = r[2]] : r \in PscRanges}
    \cup {[g EXCEPT !.entries[i] = v] : i \in 1..MaxPat, v \in PscEntryValues}
    \cup {[g EXCEPT !.sw_exit_info2 = Zero64]}

\* the MSR values of a guest that nominates a GHCB: the page at 0x3000, a page
\* outside every region, and the unimplemented function 0x016
GhcbExits ==
    {[kind |-> "Vmgexit", data |-> <<0, 0>>, msr |-> m] :
        m \in {GhcbGfn, U64(0, 0, 1, 0), U64(22, 0, 0, 0)}}

\* the MSR values of a guest's page-state requests (function 0x014): every
\* operation, at addresses with bits 12, 14, 47, 50 and 51
MsrExits ==
    {[kind |-> "Vmgexit", data |-> <<0, 0>>, msr |-> U64(a + 20, 0, h, 16 * op + b)] :
        a \in {4096, 20480}, h \in {0, 32768}, op \in 0..15, b \in {0, 4, 8}}

\* which set_memory_attributes call of a handler call the device rejects
FailAts == 0..MaxPat

\* ---------------------------------------------------------- specifications

\* several vCPUs proxying syscalls through the sallyports
Next ==
    \E t \in Threads :
        \/ Spawn(t)
        \/ Drop(t)
        \/ Run(t)
        \/ \E e \in IoOutExits \cup OtherExits : VcpuExit(t, e)
        \/ Take(t)
        \/ ReadBlockSize(t)
        \/ \E it \in ProxyItems : \E env \in EnvsOf(it) : NextItem(t, it, env)
        \/ Replace(t)
        \/ Unhandled(t)

Spec == Init /\ [][Next]_vars

\* one vCPU whose guest balloons memory
T1 == "t1"

NextBalloon ==
    \/ Spawn(T1)
    \/ Drop(T1)
    \/ Run(T1)
    \/ \E e \in IoOutExits : VcpuExit(T1, e)
    \/ Take(T1)
    \/ ReadBlockSize(T1)
    \/ \E it \in BalloonItems : \E env \in EnvsOf(it) : NextItem(T1, it, env)
    \/ Replace(T1)

SpecBalloon == Init /\ [][NextBalloon]_vars

\* one vCPU whose guest stores the blocks it triggers passes for
NextItems ==
    \/ Spawn(T1)
    \/ Drop(T1)
    \/ Run(T1)
    \/ \E b \in StoredBlocks : GuestStore(T1, b)
    \/ \E e \in IoOutExits : VcpuExit(T1, e)
    \/ Take(T1)
    \/ ReadBlockSize(T1)
    \/ /\ NextOf(stored[T1], nitems[T1]) # None
       /\ \E env \in EnvsOf(NextOf(stored[T1], nitems[T1])[1]) :
              NextItem(T1, NextOf(stored[T1], nitems[T1])[1], env)
    \/ /\ NextOf(stored[T1], nitems[T1]) = None
       /\ Replace(T1)

SpecItems == Init /\ [][NextItems]_vars

\* one vCPU whose guest nominates a GHCB
NextGhcb ==
    \/ Spawn(T1)
    \/ Drop(T1)
    \/ Run(T1)
    \/ \E g \in GuestGhcbs(ghcb) : GuestWrite(g)
    \/ \E e \in GhcbExits : VcpuExit(T1, e)
    \/ \E f \in FailAts : Vmgexit(T1, f)

SpecGhcb == Init /\ [][NextGhcb]_vars

\* one vCPU whose guest asks for page-state changes through the MSR
NextMsr ==
    \/ Spawn(T1)
    \/ Drop(T1)
    \/ Run(T1)
    \/ \E e \in MsrExits \cup OtherExits : VcpuExit(T1, e)
    \/ \E f \in FailAts : Vmgexit(T1, f)
    \/ Unhandled(T1)

SpecMsr == Init /\ [][NextMsr]_vars

\* ------------------------------------------------------------------ claims

\* C1: when enter() completes a proxy pass for mailbox i (the loop ends without
\* an exit syscall and enter returns Continue), slot i is non-empty and holds
\* the block it held before the pass, which is the block the thread took.
C1_PassRestoresSlot ==
    [][\A t \in Threads :
          (pc[t] = "loop" /\ pc'[t] = "ready" /\ result'[t] = Continue)
          => /\ sallyports'[block_nr[t] + 1] # None
             /\ sallyports'[block_nr[t] + 1] = Some(Block(block_nr[t]))
             /\ sallyports'[block_nr[t] + 1] = block_virt[t]]_vars

\* a pass over a block with items has completed and every slot is full again
C1_Witness ==
    \E t \in Threads :
        /\ pc[t] = "ready" /\ result[t] = Continue /\ item[t].kind = "Syscall"
        /\ \A i \in 1..NumSallyports : sallyports[i] = Some(Block(i - 1))

\* C2: on every return of enter() from the syscall-trigger branch other than
\* the exit/exit_group path, error returns included, slot i is non-empty.
C2_EveryReturnRestoresSlot ==
    [][\A t \in Threads :
          (pc[t] \in {"taken", "loop"} /\ pc'[t] = "ready" /\ result'[t].kind # "Exit")
          => sallyports'[block_nr[t] + 1] # None]_vars

\* C3: when an exit or exit_group item with argv[0] = s is reached, enter()
\* returns Exit(s) and slot i is left empty.
C3_ExitLeavesSlotEmpty ==
    [][\A t \in Threads :
          (pc[t] = "loop" /\ IsExitSyscall(item'[t]))
          => /\ pc'[t] = "ready"
             /\ result'[t] = Exit(item'[t].argv[1])
             /\ sallyports'[block_nr[t] + 1] = None]_vars

\* enter() returned Exit(7) for an exit item with argv[0] = 7, a slot is empty
C3_Witness ==
    \E t \in Threads :
        /\ pc[t] = "ready" /\ result[t] = Exit(7)
        /\ item[t].num = "SYS_exit" /\ item[t].argv[1] = 7
        /\ \E i \in 1..NumSallyports : sallyports[i] = None

\* C4: no vCPU handle is held by two Threads, none is both in the pool and
\* held by a Thread, and none is twice in the pool.
C4_VcpuExclusive ==
    /\ \A t1, t2 \in Threads :
           (t1 # t2 /\ vcpu_fd[t1] # None) => vcpu_fd[t1] # vcpu_fd[t2]
    /\ \A t \in Threads : \A i \in 1..Len(cpu_fds) :
           vcpu_fd[t] # Some(cpu_fds[i])
    /\ \A i, j \in 1..Len(cpu_fds) : i # j => cpu_fds[i] # cpu_fds[j]

\* two Threads hold a handle each, one of them in a proxy pass
C4_Witness ==
    /\ \A t \in Threads : vcpu_fd[t] # None
    /\ vcpu_fd["t1"] = Some(1)
    /\ vcpu_fd["t2"] = Some(2)
    /\ \E t \in Threads : pc[t] \in {"taken", "loop"}

\* C5: the handles in the pool and the handles held by Threads are together
\* the handles of the initial pool, however a Thread ends.
C5_HandlesConserved ==
    Len(cpu_fds) + Cardinality({t \in Threads : vcpu_fd[t] # None}) = NumVcpus

\* C6: a thread holds the block of index i only with slot i empty, no two
\* threads hold the block of the same index, and a thread that triggers a pass
\* for an index whose slot is empty panics without obtaining a block.
C6_MailboxExclusive ==
    [][/\ \A t \in Threads :
              block_virt'[t] # None
              => /\ sallyports'[block_nr'[t] + 1] = None
                 /\ block_virt'[t] = Some(Block(block_nr'[t]))
       /\ \A t1, t2 \in Threads :
              (t1 # t2 /\ block_virt'[t1] # None /\ block_virt'[t2] # None)
              => block_nr'[t1] # block_nr'[t2]
       /\ \A t \in Threads :
              (/\ pc[t] = "dispatch" /\ pc'[t] # "dispatch"
               /\ exit_reason[t].kind = "IoOut"
               /\ BlockNr(exit_reason[t].data) < NumSallyports
               /\ sallyports[BlockNr(exit_reason[t].data) + 1] = None)
              => /\ pc'[t] = "panicked"
                 /\ block_virt'[t] = None
                 /\ item'[t] = item[t]
                 /\ sallyports' = sallyports]_vars

\* a thread holds the block of an index and another thread panicked on the
\* trigger for the same index
C6_Witness ==
    \E t1, t2 \in Threads :
        /\ t1 # t2
        /\ block_virt[t1] # None /\ pc[t1] = "loop"
        /\ pc[t2] = "panicked" /\ block_virt[t2] = None
        /\ exit_reason[t2].kind = "IoOut"
        /\ BlockNr(exit_reason[t2].data) = block_nr[t1]

\* bits 52..55 of a descriptor entry, by division
C7_Op(x) == (x[4] \div 16) % 16

\* page-size flag (bit 56) 0 and page-offset bits (0..11) 0
C7_WellFormed(x) == (x[4] \div 256) % 2 = 0 /\ x[1] % 4096 = 0

\* this step is thread t's handler call for a descriptor-based request: the
\* GHCB at the nominated page is framed as the protocol asks
C7_Serves(t) ==
    /\ pc[t] = "dispatch" /\ pc'[t] # "dispatch"
    /\ exit_reason[t].kind = "Vmgexit" /\ exit_reason[t].msr = GhcbGfn
    /\ ghcb.ghcb_usage = 0 /\ ghcb.protocol_version <= 2
    /\ ghcb.sw_exit_code = SwExitPsc /\ ghcb.sw_scratch = Plus2048(GhcbGfn)

\* the attribute changes the entries before k ask for
C7_Setters(k) ==
    Cardinality({j \in ghcb.cur_entry..(k - 1) : C7_Op(PscEntry(ghcb, j)) \in {1, 2}})

\* processing reaches entry k (every entry before it is processed with
\* success) and entry k fails: its operation is not one of 1..4, or its
\* attribute change is rejected
C7_FailsAt(k) ==
    /\ \A j \in ghcb.cur_entry..(k - 1) :
           /\ C7_WellFormed(PscEntry(ghcb, j))
           /\ C7_Op(PscEntry(ghcb, j)) \in 1..4
    /\ \A i \in 1..C7_Setters(k) : i <= Len(attr_calls') /\ attr_calls'[i].ok
    /\ \/ C7_Op(PscEntry(ghcb, k)) \notin 1..4
       \/ /\ C7_Op(PscEntry(ghcb, k)) \in {1, 2}
          /\ Len(attr_calls') > C7_Setters(k)
          /\ ~attr_calls'[C7_Setters(k) + 1].ok

\* the code is in sw_exit_info2, cur_entry is k, the attribute changes made
\* are those of the entries up to k, and enter() returns Continue
C7_Stops(t, k) ==
    /\ ghcb'.sw_exit_info2 = IF C7_Op(PscEntry(ghcb, k)) \in 1..4
                              THEN ErrUnspecified ELSE ErrInvalidEntry
    /\ ghcb'.cur_entry = k
    /\ Len(attr_calls') = C7_Setters(k)
                           + (IF C7_Op(PscEntry(ghcb, k)) \in {1, 2} THEN 1 ELSE 0)
    /\ pc'[t] = "ready" /\ result'[t] = Continue

\* the indices the loop can visit: cur_entry..end_entry, inside the entry list
C7_Range ==
    ghcb.cur_entry..(IF ghcb.end_entry < PscEntries THEN ghcb.end_entry ELSE PscEntries - 1)

\* C7 as stated: whenever the entry at cur_entry = k fails, the handler writes
\* the code into sw_exit_info2, stops with cur_entry = k, changes no attribute
\* for a later entry, and enter() returns Continue.
C7_FailedEntryStops ==
    [][\A t \in Threads :
          C7_Serves(t) => \A k \in C7_Range : C7_FailsAt(k) => C7_Stops(t, k)]_vars

\* C7, amended: the same for an entry at cur_entry = k whose page-size flag
\* and page-offset bits are 0; an entry with either set is a fatal error
\* whatever its operation.
C7_WellFormedFailedEntryStops ==
    [][\A t \in Threads :
          C7_Serves(t) => \A k \in C7_Range :
              (C7_FailsAt(k) /\ C7_WellFormed(PscEntry(ghcb, k))) => C7_Stops(t, k)]_vars

\* entry 0 made its attribute change, entry 1 (operation 5, 4KiB) stopped the
\* handler: the code is in sw_exit_info2, cur_entry is 1, enter() continued
C7_Witness ==
    /\ pc[T1] = "ready" /\ result[T1] = Continue
    /\ ghcb.sw_exit_info2 = ErrInvalidEntry
    /\ ghcb.cur_entry = 1 /\ ghcb.end_entry >= 1
    /\ C7_Op(PscEntry(ghcb, 1)) = 5 /\ C7_WellFormed(PscEntry(ghcb, 1))
    /\ Len(attr_calls) = 1 /\ attr_calls[1].ok

\* C8: when the GHCB at the nominated page has ghcb_usage # 0 or
\* protocol_version > 2, the 0x000 request ends enter() with the error of the
\* failed validation, whatever sw_exit_code and the descriptor hold: no
\* attribute change is made and the GHCB (cur_entry and sw_exit_info2 with it)
\* is as it was.
C8_BadFramingIsFatal ==
    [][\A t \in Threads :
          (/\ pc[t] = "dispatch" /\ pc'[t] # "dispatch"
           /\ exit_reason[t].kind = "Vmgexit" /\ exit_reason[t].msr = GhcbGfn
           /\ (ghcb.ghcb_usage # 0 \/ ghcb.protocol_version > 2))
          => /\ pc'[t] = "ready"
             /\ result'[t] \in {Err("ghcb.ghcb_usage == 0"), Err("ghcb.protocol_version <= 2")}
             /\ attr_calls' = <<>>
             /\ ghcb'.cur_entry = ghcb.cur_entry
             /\ ghcb'.sw_exit_info2 = ghcb.sw_exit_info2
             /\ ghcb' = ghcb]_vars

\* enter() failed on ghcb_usage = 1 for a GHCB that asks for a page-state
\* change with a private-assignment entry at cur_entry: nothing was processed
C8_Witness ==
    /\ pc[T1] = "ready" /\ result[T1] = Err("ghcb.ghcb_usage == 0")
    /\ ghcb.ghcb_usage = 1
    /\ ghcb.sw_exit_code = SwExitPsc /\ ghcb.sw_scratch = Plus2048(GhcbGfn)
    /\ ghcb.cur_entry = 0 /\ ghcb.end_entry >= 1
    /\ C7_Op(PscEntry(ghcb, 0)) = 1 /\ C7_WellFormed(PscEntry(ghcb, 0))
    /\ ghcb.sw_exit_info2 = Zero64
    /\ attr_calls = <<>>

\* bits 12..50 of an MSR value, by division: the target address A
C9_Address(m) == <<m[1] - (m[1] % 4096), m[2], m[3], m[4] % 8>>

\* C9: for a VM communication exit whose MSR value has low 12 bits 0x014,
\* target address A and operation op: with op 1 or 2 the attribute setter is
\* invoked exactly once, with (A, 4096, private = (op = 1)), and enter()
\* returns Continue when it succeeds; with any other op enter() returns an
\* error and the setter is not invoked.
C9_MsrPageStateRequest ==
    [][\A t \in Threads :
          (/\ pc[t] = "dispatch" /\ pc'[t] # "dispatch"
           /\ exit_reason[t].kind = "Vmgexit"
           /\ exit_reason[t].msr[1] % 4096 = 20)
          => LET m == exit_reason[t].msr
                 op == (m[4] \div 16) % 16
             IN  IF op \in {1, 2}
                 THEN /\ Len(attr_calls') = 1
                      /\ attr_calls'[1].gpa = C9_Address(m)
                      /\ attr_calls'[1].len = 4096
                      /\ attr_calls'[1].private = (op = 1)
                      /\ attr_calls'[1].ok => (pc'[t] = "ready" /\ result'[t] = Continue)
                 ELSE /\ pc'[t] = "ready" /\ result'[t].kind = "Err"
                      /\ attr_calls' = <<>>]_vars

\* enter() continued after one accepted call that made the page at
\* 0x4_8000_0000_5000 (bits 14, 12, 47 and 50) private
C9_Witness ==
    /\ pc[T1] = "ready" /\ result[T1] = Continue
    /\ attr_calls = <<[gpa |-> U64(20480, 0, 32768, 4), len |-> 4096,
                       private |-> TRUE, ok |-> TRUE]>>

\* 1 << log2, as a number, differs from the host page size, or addr is not a
\* multiple of it (2 ^ log2 is past every address here from log2 = 31 on)
C10_Invalid(log2, addr) ==
    IF log2 < 31 THEN 2 ^ log2 # HostPageSize \/ addr % (2 ^ log2) # 0 ELSE TRUE

\* C10: a balloon call with 1 << log2 other than the host page size, or addr
\* not a multiple of 1 << log2, returns EINVAL, allocates no host memory and
\* leaves the region table, and so the free-memslot count, as it was.
C10_InvalidBalloonIsEinval ==
    [][\A t \in Threads :
          (/\ pc[t] = "loop"
           /\ nitems'[t] = nitems[t] + 1 \/ pc'[t] = "panicked"
           /\ item'[t].num = "BalloonMemory"
           /\ C10_Invalid(item'[t].argv[1], item'[t].argv[3]))
          => /\ pc'[t] = "loop"
             /\ item'[t].ret = 0 - EINVAL
             /\ alloc'[t] = 0
             /\ regions' = regions
             /\ MemInfo(regions', poisoned') = MemInfo(regions, poisoned)]_vars

\* this step is thread t's call of the host-call num, and the call returned
C11_Returned(t, num) ==
    /\ pc[t] = "loop" /\ pc'[t] = "loop"
    /\ nitems'[t] = nitems[t] + 1
    /\ item'[t].kind = "Enarxcall" /\ item'[t].num = num

\* C11: a meminfo call returns max_memslots - len(regions); a successful
\* balloon makes the next meminfo one less; every other step, a failed balloon
\* included, leaves the region table as it was, and the table never shrinks.
C11_MemInfoCountsFreeSlots ==
    [][/\ \A t \in Threads :
              C11_Returned(t, "MemInfo")
              => /\ item'[t].ret = MaxMemslots - Len(regions)
                 /\ item'[t].ret >= 0
                 /\ regions' = regions
       /\ \A t \in Threads :
              (C11_Returned(t, "BalloonMemory") /\ item'[t].ret >= 0)
              => /\ Len(regions') = Len(regions) + 1
                 /\ MemInfo(regions', poisoned') # None
                 /\ MemInfo(regions', poisoned')[1] = MaxMemslots - Len(regions) - 1
       /\ (\A t \in Threads : ~(C11_Returned(t, "BalloonMemory") /\ item'[t].ret >= 0))
              => regions' = regions
       /\ Len(regions') >= Len(regions)
       /\ \A i \in 1..Len(regions) : regions'[i] = regions[i]]_vars

\* a balloon call mapped a second region and the meminfo call after it
\* returned the free slots that are left
C11_Witness ==
    /\ pc[T1] = "loop" /\ nitems[T1] = 2
    /\ item[T1].num = "MemInfo"
    /\ Len(regions) = 2
    /\ item[T1].ret = MaxMemslots - 2

\* an exit or exit_group syscall item
C12_IsExit(it) == it.kind = "Syscall" /\ it.num \in {"SYS_exit", "SYS_exit_group"}

\* C12: in one proxy pass the n-th item processed is the n-th item stored in
\* the block, no item at or after the first exit item is processed, the pass
\* returns Exit exactly at the first exit item and Continue only after every
\* stored item was processed.
C12_ItemsInStoredOrder ==
    [][\A t \in Threads :
          /\ (pc[t] = "loop" /\ nitems'[t] = nitems[t] + 1)
             => /\ nitems[t] < Len(stored[t])
                /\ [item'[t] EXCEPT !.ret = 0] = stored[t][nitems[t] + 1]
                /\ \A j \in 1..(nitems[t] + 1) : ~C12_IsExit(stored[t][j])
          /\ (pc[t] = "loop" /\ pc'[t] = "ready" /\ result'[t].kind = "Exit")
             => /\ nitems[t] < Len(stored[t])
                /\ C12_IsExit(stored[t][nitems[t] + 1])
                /\ \A j \in 1..nitems[t] : ~C12_IsExit(stored[t][j])
          /\ (pc[t] = "loop" /\ pc'[t] = "ready" /\ result'[t] = Continue)
             => /\ nitems[t] = Len(stored[t])
                /\ \A j \in 1..Len(stored[t]) : ~C12_IsExit(stored[t][j])]_vars

\* a pass over a block that holds exit_group and then a write returned
\* Exit(3): exit_group is the last item the pass reached
C12_Witness ==
    /\ pc[T1] = "ready" /\ result[T1] = Exit(3)
    /\ Len(stored[T1]) = 2
    /\ stored[T1][1].num = "SYS_exit_group"
    /\ stored[T1][2].num = "SYS_write"
    /\ item[T1].num = "SYS_exit_group"

\* entry k of the descriptor in the GHCB before the call
C13_Entry(k) == ghcb.entries[(k % MaxPat) + 1]

\* entry k can succeed: 4KiB, no offset bits, operation 1..4
C13_Good(k) == C7_WellFormed(C13_Entry(k)) /\ C7_Op(C13_Entry(k)) \in 1..4

RECURSIVE C13_Changes(_, _)
\* the attribute changes entries lo..hi ask for, in index order: the page
\* (address bits 12..47) and the privacy of each
C13_Changes(lo, hi) ==
    IF lo > hi THEN <<>>
    ELSE (IF C7_Op(C13_Entry(lo)) \in {1, 2}
          THEN <<[page |-> <<C13_Entry(lo)[1], C13_Entry(lo)[2], C13_Entry(lo)[3]>>,
                  private |-> (C7_Op(C13_Entry(lo)) = 1)]>>
          ELSE <<>>)
         \o C13_Changes(lo + 1, hi)

\* the attribute changes made by the call, as pages and privacy
C13_Made(calls) ==
    [i \in 1..Len(calls) |->
        [page |-> <<calls[i].gpa[1], calls[i].gpa[2], calls[i].gpa[3]>>,
         private |-> calls[i].private]]

\* C13: a descriptor-based request with cur_entry = c <= end_entry = e moves
\* cur_entry forward over entries that succeeded, makes the attribute changes
\* of exactly those entries (and of the entry a rejection stopped at) once
\* each in index order, and when every entry of c..e succeeds it ends with
\* cur_entry = e + 1 and the changes of all of c..e made.
C13_EntriesInCursorOrder ==
    [][\A t \in Threads :
          (C7_Serves(t) /\ ghcb.cur_entry <= ghcb.end_entry)
          => LET c == ghcb.cur_entry
                 e == ghcb.end_entry
                 k == ghcb'.cur_entry
                 stopped == Len(attr_calls') > 0 /\ ~attr_calls'[Len(attr_calls')].ok
             IN  /\ c <= k /\ k <= e + 1
                 /\ \A j \in c..(k - 1) : C13_Good(j)
                 /\ \A i \in 1..(Len(attr_calls') - 1) : attr_calls'[i].ok
                 /\ C13_Made(attr_calls')
                        = C13_Changes(c, IF stopped THEN k ELSE k - 1)
                 /\ (/\ e < PscEntries
                     /\ \A j \in c..e : C13_Good(j)
                     /\ ~stopped)
                    => /\ k = e + 1
                       /\ C13_Made(attr_calls') = C13_Changes(c, e)
                       /\ pc'[t] = "ready" /\ result'[t] = Continue]_vars

\* entries 0..MaxPat were processed, each with an accepted attribute change:
\* the page at 0x5000 first, cur_entry one past end_entry
C13_Witness ==
    /\ pc[T1] = "ready" /\ result[T1] = Continue
    /\ ghcb.end_entry = MaxPat /\ ghcb.cur_entry = MaxPat + 1
    /\ Len(attr_calls) = MaxPat + 1
    /\ \A i \in 1..Len(attr_calls) : attr_calls[i].ok
    /\ attr_calls[1].gpa = U64(20480, 0, 0, 0)
    /\ attr_calls[2].gpa = U64(24576, 0, 0, 0)

\* C14: for a descriptor with cur_entry = end_entry = k whose entry k is a
\* PSMASH or UNSMASH hint (operation 3 or 4) for a 4KiB page without offset
\* bits, the call moves cur_entry to k + 1, makes no attribute change and
\* leaves sw_exit_info2 as it was.
C14_HintOnlyAdvances ==
    [][\A t \in Threads :
          (/\ C7_Serves(t)
           /\ ghcb.cur_entry = ghcb.end_entry /\ ghcb.cur_entry < PscEntries
           /\ C7_Op(C13_Entry(ghcb.cur_entry)) \in {3, 4}
           /\ C7_WellFormed(C13_Entry(ghcb.cur_entry)))
          => /\ ghcb'.cur_entry = ghcb.cur_entry + 1
             /\ attr_calls' = <<>>
             /\ ghcb'.sw_exit_info2 = ghcb.sw_exit_info2
             /\ pc'[t] = "ready" /\ result'[t] = Continue]_vars

\* a call moved cur_entry past end_entry = MaxPat over an UNSMASH hint; the
\* entry before it is invalid, so the call began at the hint; no attribute
\* change was made and the code an earlier request left is still there
C14_Witness ==
    /\ pc[T1] = "ready" /\ result[T1] = Continue
    /\ ghcb.end_entry = MaxPat /\ ghcb.cur_entry = MaxPat + 1
    /\ ghcb.ghcb_usage = 0 /\ ghcb.protocol_version <= 2
    /\ ghcb.sw_scratch = Plus2048(GhcbGfn)
    /\ C7_Op(ghcb.entries[(MaxPat % MaxPat) + 1]) = 4
    /\ C7_WellFormed(ghcb.entries[(MaxPat % MaxPat) + 1])
    /\ C7_Op(ghcb.entries[((MaxPat - 1) % MaxPat) + 1]) = 5
    /\ attr_calls = <<>>
    /\ ghcb.sw_exit_info2 # Zero64

\* C15: no guard of the Keep lock covers two page-state-change entries, none
\* covers the execution of the items a host-call is followed up with, and a
\* Thread whose vCPU is executing holds none.
C15_NarrowCriticalSections ==
    \A t \in Threads :
        /\ Cardinality({i \in 1..Len(section[t]) : section[t][i] = "entry"}) <= 1
        /\ \A i \in 1..Len(section[t]) : section[t][i] # "execute"
        /\ pc[t] = "running" => section[t] = <<>>

\* C16: a turn of the item loop for a host-call or a passthrough syscall
\* never ends enter() with an error: the loop goes on with the next item and
\* a failure is a negative code in the item's result field.
C16_CallFailuresAreRecoverable ==
    [][\A t \in Threads :
          (/\ pc[t] = "loop" /\ ~poisoned
           /\ nitems'[t] = nitems[t] + 1 \/ result'[t].kind = "Err"
           /\ item'[t].kind = "Enarxcall"
              \/ (item'[t].kind = "Syscall" /\ ~C12_IsExit(item'[t])))
          => /\ pc'[t] = "loop"
             /\ nitems'[t] = nitems[t] + 1
             /\ result'[t].kind # "Err"]_vars

\* bits 12..51 of a descriptor entry, by division
C17_Address(x) == <<x[1] - (x[1] % 4096), x[2], x[3], x[4] % 16>>

\* C17: when the first entry a descriptor-based request processes has bits
\* 0..11 zero, page-size flag zero and operation 1 or 2, the attribute setter
\* is called for it with the address in bits 12..51 of the entry, length 4096
\* and private = (operation = 1).
C17_AddressIsBits12To51 ==
    [][\A t \in Threads :
          (/\ C7_Serves(t)
           /\ ghcb.cur_entry <= ghcb.end_entry /\ ghcb.cur_entry < PscEntries
           /\ C7_WellFormed(C13_Entry(ghcb.cur_entry))
           /\ C7_Op(C13_Entry(ghcb.cur_entry)) \in {1, 2})
          => /\ Len(attr_calls') >= 1
             /\ attr_calls'[1].gpa = C17_Address(C13_Entry(ghcb.cur_entry))
             /\ attr_calls'[1].len = 4096
             /\ attr_calls'[1].private = (C7_Op(C13_Entry(ghcb.cur_entry)) = 1)]_vars

\* C18: for every cur_entry and end_entry of a descriptor-based request,
\* end_entry = 0xFFFF included, the loop makes at most end_entry - cur_entry
\* + 1 turns, cur_entry does not wrap around, and the handler returns.
C18_PscLoopTerminates ==
    [][\A t \in Threads :
          C7_Serves(t)
          => /\ ghcb'.cur_entry >= ghcb.cur_entry
             /\ ghcb.cur_entry <= ghcb.end_entry
                => ghcb'.cur_entry - ghcb.cur_entry <= ghcb.end_entry - ghcb.cur_entry + 1
             /\ Len(attr_calls') <= ghcb'.cur_entry - ghcb.cur_entry + 1
             /\ pc'[t] = "ready" /\ result'[t].kind \in {"Continue", "Err"}]_vars

\* C19: a descriptor-based request reads no entry at an index past the entry
\* list: a cursor at or past the number of entries ends the call with an
\* error, without a panic, a poisoned lock or an abort of the host.
C19_CursorInsideEntryList ==
    [][\A t \in Threads :
          (C7_Serves(t) /\ ghcb.cur_entry <= ghcb.end_entry)
          => /\ pc'[t] # "panicked" /\ ~poisoned'
             /\ ghcb.cur_entry >= PscEntries
                => (pc'[t] = "ready" /\ result'[t].kind = "Err" /\ attr_calls' = <<>>)]_vars

\* C20: a descriptor-based request whose range is empty (cur_entry >
\* end_entry) or whose entries cur_entry..end_entry all succeed leaves
\* sw_exit_info2 as it was, a code left by an earlier request included; the
\* call writes sw_exit_info2 only when it stops at an entry that failed.
C20_SuccessKeepsExitInfo2 ==
    [][\A t \in Threads :
          C7_Serves(t)
          => LET c == ghcb.cur_entry
                 e == ghcb.end_entry
                 rejected == \E i \in 1..Len(attr_calls') : ~attr_calls'[i].ok
             IN  /\ (c > e \/ (e < PscEntries /\ ~rejected /\ \A j \in c..e : C13_Good(j)))
                    => /\ ghcb'.sw_exit_info2 = ghcb.sw_exit_info2
                       /\ pc'[t] = "ready" /\ result'[t] = Continue
                 /\ ghcb'.sw_exit_info2 # ghcb.sw_exit_info2
                    => /\ ghcb'.cur_entry <= e
                       /\ rejected \/ C7_Op(C13_Entry(ghcb'.cur_entry)) \notin 1..4]_vars

\* a request whose entries 0..MaxPat all made their attribute change
\* returned, and the invalid-entry code of an earlier request is still in
\* sw_exit_info2
C20_Witness ==
    /\ pc[T1] = "ready" /\ result[T1] = Continue
    /\ ghcb.end_entry = MaxPat /\ ghcb.cur_entry = MaxPat + 1
    /\ Len(attr_calls) = MaxPat + 1
    /\ \A i \in 1..Len(attr_calls) : attr_calls[i].ok
    /\ ghcb.sw_exit_info2 = ErrInvalidEntry

====
